---- MODULE Spec2Model ----
(***************************************************************************)
(* Failure registry, nine-principle debug step progression, failure        *)
(* grouping and the read-only views of the pytest-mcp-server tools         *)
(* (register_pytest_failure, debug_with_principle, get_failure_info,       *)
(* list_failures, analyze_failures, generate_debug_prompt) over the flat   *)
(* JSON stores failures.json, debug_sessions.json and failure_groups.json. *)
(*                                                                         *)
(* A store is modelled by the mapping its file parses to, plus a flag      *)
(* telling whether the file can currently be read and parsed.  A nullable  *)
(* JSON value, an optional argument and a possibly undefined JavaScript    *)
(* value are modelled as a sequence of length 0 (null / omitted /          *)
(* undefined) or 1 (the value).                                            *)
(*                                                                         *)
(* Further parts: the file accesses of two server processes that share the *)
(* data directory (SpecRace), the evaluation order of the launch in cli.ts *)
(* (SpecLaunch) and the keep-alive handler of an HTTP stream connection    *)
(* (SpecStream).                                                           *)
(***************************************************************************)
EXTENDS Integers, Sequences, FiniteSets, TLC

\* ---------------------------------------------------------------- bounds
\* Date.now() ranges over 1..MaxTime; failure ids are clock readings.
MaxTime == 2
\* Number of tool invocations in a behaviour.
MaxOps == 3
\* Number of analyze_failures runs in a behaviour.
MaxRuns == 2
\* number of debug_with_principle calls in a walk through the principles
MaxCalls == 10
\* number of keep-alive ticks on a stream connection
MaxTicks == 8

\* -------------------------------------------------------------- constants
\* Number of debugging principles (length of DEBUG_PRINCIPLES).
NumPrinciples == 9

\* Analysis texts a caller can pass (input.analysis is a string).
Analyses == {"root cause is X", "final check"}

\* principle_number values that reach execute(): omitted, or a number.  The
\* HTTP route /api/debug forwards req.body.principle_number unvalidated, so
\* numbers outside 1..9 do reach the tool.  The numbers tried are the ends
\* of the range, their outer neighbours, 0 (falsy) and an inner number.
SuppliedNumbers == {-1, 0, 1, 2, NumPrinciples, NumPrinciples + 1}
Omitted == << >>
PrincipleArgs == {Omitted} \cup {<<n>> : n \in SuppliedNumbers}

Null == << >>
Undefined == << >>

\* A property name every object JSON.parse returns inherits from
\* Object.prototype: failures["constructor"] is the function Object, which
\* is truthy, for every content of failures.json.
InheritedKeys == {"constructor"}

\* error_message texts, as sequences of lexical tokens: a word, a colon, a
\* run of digits or a quoted string.  The match and the replacements the
\* grouping performs act on these tokens.
MsgTimeout == << "timed out after", "30", "seconds on", "'db'" >>
MsgType42  == << "TypeError", ":", "expected", "42" >>
MsgType7   == << "TypeError", ":", "expected", "7" >>

\* The descriptive fields a caller registers a failure with (test_name,
\* line_number, traceback and locals are carried along unread and are left
\* out).
\* A file_path is the sequence of its segments.
InputTimeout ==
    [error_message |-> MsgTimeout, file_path |-> << "tests", "test_a.py" >>]
InputType42 ==
    [error_message |-> MsgType42, file_path |-> << "tests", "test_b.py" >>]
InputType7 ==
    [error_message |-> MsgType7, file_path |-> << "tests", "test_c.py" >>]
RegisterInputs == << InputTimeout, InputType42, InputType7 >>

VARIABLES
    now,            \* the system clock, Date.now()
    failures,       \* parsed content of failures.json: id -> FailureRecord
    sessions,       \* parsed content of debug_sessions.json: key -> DebugSession
    failuresOK,     \* failures.json can be read and parsed
    sessionsOK,     \* debug_sessions.json can be read and parsed
    inheritedStep,  \* current_debug_step property the process has set on
                    \* the inherited member (undefined until it is assigned)
    result,         \* what the last tool invocation returned (or threw)
    opCount,        \* number of tool invocations so far
    groups,         \* parsed content of failure_groups.json: id -> FailureGroup
    report,         \* what the last analyze_failures run returned
    runCount,       \* number of analyze_failures runs so far
    inflight,       \* per server process: the invocation it is executing
    startup,        \* how far the launch of the server has come, and the
                    \* directories its modules have resolved
    stream          \* the state of one HTTP stream connection

vars == <<now, failures, sessions, failuresOK, sessionsOK, inheritedStep,
          result, opCount, groups, report, runCount, inflight, startup,
          stream>>

\* What the failure registry and the step progression leave alone.
analytics == <<groups, report, runCount>>

\* ---------------------------------------------------------------- helpers
EmptyMap == [x \in {} |-> x]

\* obj[key] = val on a JavaScript object used as a map.
Put(map, key, val) ==
    [x \in (DOMAIN map) \cup {key} |-> IF x = key THEN val ELSE map[x]]

Min(a, b) == IF a < b THEN a ELSE b

\* Date.now().toString()
FailureId(t) == ToString(t)

\* `session_${failureId}`
SessionId(fid) == "session_" \o fid

\* The fixed principle table (number and display name).
DEBUG_PRINCIPLES ==
    << [number |-> 1, name |-> "Understand the System"],
       [number |-> 2, name |-> "Make It Fail"],
       [number |-> 3, name |-> "Quit Thinking and Look"],
       [number |-> 4, name |-> "Divide and Conquer"],
       [number |-> 5, name |-> "Change One Thing at a Time"],
       [number |-> 6, name |-> "Keep an Audit Trail"],
       [number |-> 7, name |-> "Check the Plug"],
       [number |-> 8, name |-> "Get a Fresh View"],
       [number |-> 9, name |-> "If You Didn't Fix It, It Ain't Fixed"] >>

\* A pending DebugStep entry created at time t.
NewStep(k, t) ==
    [step         |-> k,
     name         |-> DEBUG_PRINCIPLES[k].name,
     status       |-> "pending",
     started_at   |-> t,
     completed_at |-> Null,
     llm_analysis |-> Null]

\* result before any invocation.  k is the effective principle number, 0
\* when it was not computed or is undefined.
NoResult ==
    [op |-> "none", kind |-> "none", failure_id |-> "",
     principle_number |-> Omitted, k |-> 0, analysis |-> Null,
     is_complete |-> FALSE, next_principle |-> Null]

\* report before any analyze_failures run.  of and at are the failure store
\* and the clock reading the run saw.
NoReport ==
    [kind |-> "none", group_by |-> "", time_range |-> "",
     include_resolved |-> FALSE, total_failures |-> 0, group_count |-> 0,
     groups |-> << >>, most_common_error |-> "None",
     error_distribution |-> EmptyMap, of |-> EmptyMap, at |-> 0]

\* Directories: the default of the data directory module, the directory the
\* tools build from the working directory, a directory named by the
\* DATA_DIR environment variable and one named by --data-dir.
HomeDir   == "~/.pytest-mcp-server"
CwdData   == "./data"
EnvDir    == "/srv/data"
OptionDir == "./my-data"

\* A launch before any module was evaluated.  env is process.env.DATA_DIR;
\* arg is the --data-dir option; the other fields are the directories the
\* modules resolve (undefined until they do).
Launch(env, arg) ==
    [pc |-> "import_tools", env |-> env, arg |-> arg,
     actualDataDir |-> Undefined, cwdDataDir |-> Undefined,
     httpDataDir |-> Undefined, optionsDataDir |-> Undefined]

\* The server as launched with DATA_DIR set to ./data and no --data-dir:
\* every module resolves the same directory.
SharedStart ==
    [pc |-> "serving", env |-> << CwdData >>, arg |-> Omitted,
     actualDataDir |-> << CwdData >>, cwdDataDir |-> << CwdData >>,
     httpDataDir |-> << CwdData >>, optionsDataDir |-> << CwdData >>]

\* An HTTP stream connection before the request arrives.  timer tells that
\* the keep-alive interval is set, ticks counts its firings, pending counts
\* the recovery timeouts that are scheduled, pings records for every ping
\* whether res.write accepted it, sent is the method of the last message
\* written, ended tells that res.end() was called and closed that the
\* client has gone.
NoStream ==
    [phase |-> "none", connectionActive |-> FALSE, reconnectAttempts |-> 0,
     lastPingSent |-> 0, timer |-> FALSE, ticks |-> 0, pending |-> 0,
     pings |-> << >>, sent |-> "none", ended |-> FALSE, closed |-> FALSE]

\* Server processes that share one data directory (each client of the
\* stdio transport starts its own).
Procs == {1, 2}

\* An invocation in progress.  pc counts the file accesses done; fs and ss
\* are the objects parsed from the two files; staleF and staleS tell that
\* another process wrote the file after this one read it.
Idle ==
    [pc |-> 0, op |-> "none", failure_id |-> "", pn |-> Omitted, k |-> 0,
     analysis |-> "", t |-> 0, fs |-> EmptyMap, ss |-> EmptyMap,
     staleF |-> FALSE, staleS |-> FALSE]

\* ------------------------------------------------------------------- Init
\* ensureDataFileExists creates both files with the content '{}'.
Init ==
    /\ now = 1
    /\ failures = EmptyMap
    /\ sessions = EmptyMap
    /\ failuresOK = TRUE
    /\ sessionsOK = TRUE
    /\ inheritedStep = Undefined
    /\ result = NoResult
    /\ opCount = 0
    /\ groups = EmptyMap
    /\ report = NoReport
    /\ runCount = 0
    /\ inflight = [p \in Procs |-> Idle]
    /\ startup = SharedStart
    /\ stream = NoStream

\* The clock advances.
Tick ==
    /\ now < MaxTime
    /\ now' = now + 1
    /\ UNCHANGED <<failures, sessions, failuresOK, sessionsOK, inheritedStep,
                   result, opCount, analytics, inflight, startup, stream>>

\* ------------------------------------------------- register_pytest_failure
\* The record execute() stores: the defaults followed by the spread of the
\* PytestFailureInput fields (test_name, file_path, line_number,
\* error_message, traceback, locals), none of which is a default's key.
NewFailure(fid, t) ==
    [id                 |-> fid,
     timestamp          |-> t,
     status             |-> "new",
     current_debug_step |-> 1]

\* failures[failureId] = { id, timestamp, status, current_debug_step,
\* ...input }: the fields of input come last and win.
StoredFailure(fid, t, input) == input @@ NewFailure(fid, t)

\* Faulty variant of NewSession: the session starts without its step-1
\* entry.
NewSession_NoSteps(fid, t) ==
    [id          |-> SessionId(fid),
     failure_id  |-> fid,
     created_at  |-> t,
     debug_steps |-> << >>]

\* The session execute() stores next to the failure.
NewSession(fid, t) ==
    [id          |-> SessionId(fid),
     failure_id  |-> fid,
     created_at  |-> t,
     debug_steps |-> << NewStep(1, t) >>]

\* What a registration starts from: the parsed file, or an empty object when
\* the file cannot be read or parsed.
LoadOrEmpty(map, ok) == IF ok THEN map ELSE EmptyMap

Register(input) ==
    /\ opCount < MaxOps
    /\ LET failureId == FailureId(now)
           fs == Put(LoadOrEmpty(failures, failuresOK), failureId,
                     StoredFailure(failureId, now, input))
           ss == Put(LoadOrEmpty(sessions, sessionsOK), SessionId(failureId),
                     NewSession(failureId, now))
       IN  /\ failures' = fs
           /\ sessions' = ss
           /\ failuresOK' = TRUE
           /\ sessionsOK' = TRUE
           /\ result' = [NoResult EXCEPT !.op = "register", !.kind = "ok",
                                         !.failure_id = failureId]
    /\ opCount' = opCount + 1
    /\ UNCHANGED <<now, inheritedStep, analytics, inflight, startup, stream>>

\* A registration; the step progression reads none of the descriptive
\* fields, so one input stands for all.
RegisterFailure == Register(InputType42)

\* ---------------------------------------------------- debug_with_principle
\* failures[input.failure_id] is truthy: a stored record, or a member the
\* parsed object inherits.
Found(fs, fid) == fid \in DOMAIN fs \/ fid \in InheritedKeys

\* failure.current_debug_step of what the lookup returned; undefined on the
\* inherited member until the process has assigned it.
CurrentStep(fs, inherited, fid) ==
    IF fid \in DOMAIN fs THEN <<fs[fid].current_debug_step>> ELSE inherited

\* Faulty variant of PrincipleNumber: an omitted number defaults to
\* principle 1.
PrincipleNumber_DefaultOne(pn, current) ==
    IF pn = Omitted \/ pn = <<0>> THEN <<1>> ELSE pn

\* input.principle_number || failure.current_debug_step
\* (an omitted number and the number 0 are both falsy).
PrincipleNumber(pn, current) ==
    IF pn = Omitted \/ pn = <<0>> THEN current ELSE pn

\* The range check: principleNumber < 1 || principleNumber > 9 is an error;
\* both comparisons are false for undefined.
InRange(k) == ~(k # Undefined /\ (k[1] < 1 \/ k[1] > NumPrinciples))

\* Faulty variant of LoadSessions: an unreadable file is taken as an empty
\* object, as the registration does.
LoadSessions_EmptyOnError(ss, ok) == IF ok THEN <<ss>> ELSE <<EmptyMap>>

\* The parsed sessions file, or nothing when it cannot be read or parsed.
LoadSessions(ss, ok) == IF ok THEN <<ss>> ELSE << >>

\* sessions[sessionId], created with no steps when absent.
SessionOf(ss, fid, t) ==
    IF SessionId(fid) \in DOMAIN ss
    THEN ss[SessionId(fid)]
    ELSE [id |-> SessionId(fid), failure_id |-> fid, created_at |-> t,
          debug_steps |-> << >>]

\* session.debug_steps.find(step => step.step === k): index of the first
\* entry for k, 0 when there is none.
FindStep(steps, k) ==
    IF \E i \in 1 .. Len(steps) : steps[i].step = k
    THEN CHOOSE i \in 1 .. Len(steps) :
             /\ steps[i].step = k
             /\ \A j \in 1 .. (i - 1) : steps[j].step # k
    ELSE 0

\* Faulty variant of WithStep: a new entry is pushed whether or not one
\* exists.
WithStep_AlwaysPush(steps, k, t) == Append(steps, NewStep(k, t))

\* The step list with an entry for k: pushed as pending when none was found.
WithStep(steps, k, t) ==
    IF FindStep(steps, k) = 0 THEN Append(steps, NewStep(k, t)) ELSE steps

\* Faulty variant of CompleteStep: completed_at is not stamped.
CompleteStep_NoStamp(s, t, analysis) ==
    [s EXCEPT !.status = "completed", !.llm_analysis = <<analysis>>]

\* status = "completed", completed_at = now, llm_analysis = input.analysis
CompleteStep(s, t, analysis) ==
    [s EXCEPT !.status = "completed",
              !.completed_at = <<t>>,
              !.llm_analysis = <<analysis>>]

\* Faulty variant of NextPrincipleNumber: the cap at 9 is missing.
NextPrincipleNumber_NoCap(k) == k + 1

\* Math.min(principleNumber + 1, 9)
NextPrincipleNumber(k) == Min(k + 1, NumPrinciples)

\* Faulty variant of AdvancedStep: the pointer never moves backward.
AdvancedStep_Monotonic(current, k) ==
    IF current # Undefined /\ current[1] > NextPrincipleNumber(k)
    THEN current[1] ELSE NextPrincipleNumber(k)

\* failure.current_debug_step = nextPrincipleNumber: the value assigned,
\* whatever the property held.
AdvancedStep(current, k) == NextPrincipleNumber(k)

\* Faulty variant of WithNextPending: an entry that exists for the next
\* principle is replaced by a fresh placeholder.
WithNextPending_Reset(steps, k, t) ==
    IF k >= NumPrinciples THEN steps
    ELSE IF \E i \in 1 .. Len(steps) : steps[i].step = NextPrincipleNumber(k)
    THEN [i \in 1 .. Len(steps) |->
             IF steps[i].step = NextPrincipleNumber(k)
             THEN NewStep(NextPrincipleNumber(k), t) ELSE steps[i]]
    ELSE Append(steps, NewStep(NextPrincipleNumber(k), t))

\* Faulty variant of WithNextPending: no placeholder is pushed.
WithNextPending_Never(steps, k, t) == steps

\* The pending placeholder for the next principle, pushed when k < 9 and no
\* entry for it exists.
WithNextPending(steps, k, t) ==
    IF k < NumPrinciples
       /\ ~(\E i \in 1 .. Len(steps) : steps[i].step = NextPrincipleNumber(k))
    THEN Append(steps, NewStep(NextPrincipleNumber(k), t))
    ELSE steps

\* The debug_steps of the session after principle k was applied.
AppliedSteps(steps, k, t, analysis) ==
    LET with == WithStep(steps, k, t)
        i    == FindStep(with, k)
        done == [with EXCEPT ![i] = CompleteStep(with[i], t, analysis)]
    IN  WithNextPending(done, k, t)

\* Faulty variant of ApplyResult: the comparisons with 9 are off by one
\* (> for >=, <= for <).
ApplyResult_OffByOne(fid, pn, k, analysis) ==
    [op |-> "apply", kind |-> "ok", failure_id |-> fid,
     principle_number |-> pn, k |-> k, analysis |-> <<analysis>>,
     is_complete |-> (k > NumPrinciples),
     next_principle |->
         IF k <= NumPrinciples
         THEN << [number |-> NextPrincipleNumber(k),
                  name   |-> DEBUG_PRINCIPLES[NextPrincipleNumber(k)].name] >>
         ELSE Null]

\* The value execute() returns on success.
ApplyResult(fid, pn, k, analysis) ==
    [op |-> "apply", kind |-> "ok", failure_id |-> fid,
     principle_number |-> pn, k |-> k, analysis |-> <<analysis>>,
     is_complete |-> (k >= NumPrinciples),
     next_principle |->
         IF k < NumPrinciples
         THEN << [number |-> NextPrincipleNumber(k),
                  name   |-> DEBUG_PRINCIPLES[NextPrincipleNumber(k)].name] >>
         ELSE Null]

\* execute() throws (or returns an error) before anything was written.
Throw(kind, fid, pn, k) ==
    /\ result' = [NoResult EXCEPT !.op = "apply", !.kind = kind,
                                  !.failure_id = fid,
                                  !.principle_number = pn,
                                  !.k = IF k = Undefined THEN 0 ELSE k[1]]
    /\ UNCHANGED <<failures, sessions, inheritedStep>>

\* execute() of debug_with_principle.
ApplyPrinciple(fid, pn, analysis) ==
    /\ opCount' = opCount + 1
    /\ UNCHANGED <<now, failuresOK, sessionsOK, analytics, inflight, startup,
                   stream>>
    /\ IF ~failuresOK
       THEN Throw("storage_error", fid, pn, Undefined)
       ELSE IF ~Found(failures, fid)
       THEN Throw("not_found", fid, pn, Undefined)
       ELSE LET current == CurrentStep(failures, inheritedStep, fid)
                k       == PrincipleNumber(pn, current)
                loaded  == LoadSessions(sessions, sessionsOK)
            IN  IF ~InRange(k)
                THEN Throw("invalid_argument", fid, pn, k)
                ELSE IF loaded = << >>
                THEN Throw("storage_error", fid, pn, k)
                ELSE IF k = Undefined
                \* principle is undefined; reading principle.name throws
                THEN Throw("type_error", fid, pn, k)
                ELSE LET ss      == loaded[1]
                         session == SessionOf(ss, fid, now)
                         steps   == AppliedSteps(session.debug_steps, k[1],
                                                 now, analysis)
                         next    == AdvancedStep(current, k[1])
                     IN  /\ IF fid \in DOMAIN failures
                            THEN /\ failures' = [failures EXCEPT
                                       ![fid].current_debug_step = next]
                                 /\ UNCHANGED inheritedStep
                            ELSE /\ inheritedStep' = <<next>>
                                 /\ UNCHANGED failures
                         /\ sessions' = Put(ss, SessionId(fid),
                                   [session EXCEPT !.debug_steps = steps])
                         /\ result' = ApplyResult(fid, pn, k[1], analysis)

DebugWithPrinciple(fid, pn, analysis) ==
    /\ opCount < MaxOps
    /\ ApplyPrinciple(fid, pn, analysis)

\* -------------------------------------------------------- analyze_failures
\* Arguments of analyze_failures: each is omitted or given.
GroupByArgs == {Omitted, <<"file_path">>, <<"pattern">>, <<"severity">>}
TimeRangeArgs == {Omitted, <<"today">>, <<"week">>}
IncludeResolvedArgs == {Omitted, <<TRUE>>}

\* input.x || fallback for a string or boolean argument.
OrDefault(arg, fallback) == IF arg = Omitted THEN fallback ELSE arg[1]

\* Object.values(failures): the records in insertion order, which is the
\* order of their registration.
RECURSIVE ValuesOf(_)
ValuesOf(fs) ==
    IF DOMAIN fs = {} THEN << >>
    ELSE LET first == CHOOSE f \in DOMAIN fs :
                          \A g \in DOMAIN fs :
                              fs[f].timestamp <= fs[g].timestamp
         IN  << fs[first] >>
                 \o ValuesOf([x \in (DOMAIN fs) \ {first} |-> fs[x]])

\* The calendar day of a clock reading (toDateString): the clock readings
\* the model distinguishes lie on successive days.
Day(t) == t

\* The time-range test of the filter; an unknown range keeps everything.
InTimeRange(t, current, timeRange) ==
    CASE timeRange = "today" -> Day(t) = Day(current)
      [] timeRange = "week"  -> Day(t) >= Day(current) - 7
      [] OTHER               -> TRUE

\* Faulty variant of Keep: the status is not looked at.
Keep_AnyStatus(f, current, timeRange, includeResolved) ==
    InTimeRange(f.timestamp, current, timeRange)

\* The filter callback: a resolved failure is dropped unless resolved ones
\* are included; then the time range decides.
Keep(f, current, timeRange, includeResolved) ==
    IF ~includeResolved /\ f.status = "resolved"
    THEN FALSE
    ELSE InTimeRange(f.timestamp, current, timeRange)

FilteredFailures(fs, current, timeRange, includeResolved) ==
    LET Test(f) == Keep(f, current, timeRange, includeResolved)
    IN  SelectSeq(ValuesOf(fs), Test)

\* Leading tokens that /^([A-Za-z]+Error|AssertionError|Exception):/ accepts
\* as the error identifier.
ErrorIdentifiers == {"TypeError", "AssertionError", "Exception"}
DigitRuns == {"30", "42", "7"}
SingleQuoted == {"'db'"}

\* error_message.match(...): the captured identifier, or null.
ErrorMatch(msg) ==
    IF Len(msg) >= 2 /\ msg[1] \in ErrorIdentifiers /\ msg[2] = ":"
    THEN << msg[1] >> ELSE Null

\* extractErrorPattern: digit runs become N, quoted strings 'VALUE'.
ExtractErrorPattern(msg) ==
    [i \in 1 .. Len(msg) |->
        IF msg[i] \in DigitRuns THEN "N"
        ELSE IF msg[i] \in SingleQuoted THEN "'VALUE'"
        ELSE msg[i]]

\* determineErrorType
DetermineErrorType(f) ==
    IF ErrorMatch(f.error_message) # Null
    THEN ErrorMatch(f.error_message)[1] ELSE "Unknown Error"

\* The group key (a token sequence); empty for an unknown group_by.
GroupKey(f, groupBy) ==
    CASE groupBy = "error_type" ->
             IF ErrorMatch(f.error_message) # Null
             THEN ErrorMatch(f.error_message) ELSE << "UnknownError" >>
      [] groupBy = "file_path" -> f.file_path
      [] groupBy = "pattern" -> ExtractErrorPattern(f.error_message)
      [] OTHER -> << >>

\* The pattern text of a group created for failure f.
GroupPattern(f, groupBy) ==
    CASE groupBy = "error_type" -> ExtractErrorPattern(f.error_message)
      [] groupBy = "file_path" ->
             << "Failures in", f.file_path[Len(f.file_path)] >>
      [] groupBy = "pattern" -> ExtractErrorPattern(f.error_message)
      [] OTHER -> << >>

\* `group_${Date.now()}_${Object.keys(groups).length}`
GroupId(t, n) == "group_" \o ToString(t) \o "_" \o ToString(n)

\* The group created when failure f is the first with its key.
NewGroup(f, groupBy, t, n) ==
    [id                |-> GroupId(t, n),
     key               |-> GroupKey(f, groupBy),
     pattern           |-> GroupPattern(f, groupBy),
     count             |-> 0,
     failures          |-> << >>,
     common_error_type |-> DetermineErrorType(f),
     first_seen        |-> f.timestamp,
     last_seen         |-> f.timestamp]

\* Index of the group with the given key in a group list, 0 when none.
FindGroup(gs, key) ==
    IF \E i \in 1 .. Len(gs) : gs[i].key = key
    THEN CHOOSE i \in 1 .. Len(gs) : gs[i].key = key
    ELSE 0

\* Faulty variant of AddToGroup: the member id is not recorded.
AddToGroup_CountOnly(g, f) ==
    [g EXCEPT !.count = @ + 1,
              !.first_seen = Min(@, f.timestamp),
              !.last_seen = IF f.timestamp > @ THEN f.timestamp ELSE @]

\* count++, failures.push(failure.id), first_seen / last_seen updated.
AddToGroup(g, f) ==
    [g EXCEPT !.count = @ + 1,
              !.failures = Append(@, f.id),
              !.first_seen = Min(@, f.timestamp),
              !.last_seen = IF f.timestamp > @ THEN f.timestamp ELSE @]

\* groupFailures: one pass over the failures; gs is the list of the groups
\* made so far, in the order of their creation (Object.values(groups)).
RECURSIVE GroupFailures(_, _, _, _)
GroupFailures(list, groupBy, t, gs) ==
    IF list = << >> THEN gs
    ELSE LET f    == Head(list)
             key  == GroupKey(f, groupBy)
             with == IF FindGroup(gs, key) = 0
                     THEN Append(gs, NewGroup(f, groupBy, t, Len(gs)))
                     ELSE gs
             i    == FindGroup(with, key)
         IN  GroupFailures(Tail(list), groupBy, t,
                           [with EXCEPT ![i] = AddToGroup(with[i], f)])

\* groups.sort((a, b) => b.count - a.count): a stable sort, largest count
\* first.
RECURSIVE SortByCount(_)
SortByCount(gs) ==
    IF gs = << >> THEN << >>
    ELSE LET rest == SortByCount(Tail(gs))
             g    == Head(gs)
             \* g goes before the first sorted element that is not larger
             k    == Cardinality({i \in 1 .. Len(rest) :
                                     rest[i].count > g.count})
         IN  SubSeq(rest, 1, k) \o << g >> \o SubSeq(rest, k + 1, Len(rest))

RECURSIVE SumCounts(_)
SumCounts(gs) ==
    IF gs = << >> THEN 0 ELSE Head(gs).count + SumCounts(Tail(gs))

\* errorTypeDistribution: per common_error_type, the sum of the counts of
\* the groups that carry it.
ErrorDistribution(gs) ==
    [ty \in {gs[i].common_error_type : i \in 1 .. Len(gs)} |->
        LET Has(g) == g.common_error_type = ty
        IN  SumCounts(SelectSeq(gs, Has))]

\* most_common_error: the common_error_type of the group that sorts first.
MostCommonError(gs, sorted) ==
    IF sorted = << >> THEN "None" ELSE sorted[1].common_error_type

\* saveFailureGroups: every group is stored under its id.
RECURSIVE MergeGroups(_, _)
MergeGroups(existing, gs) ==
    IF gs = << >> THEN existing
    ELSE MergeGroups(Put(existing, Head(gs).id, Head(gs)), Tail(gs))

\* What execute() returns; the groups are in sorted order because
\* generateInsights sorts the array in place.
AnalyzeReport(fs, t, groupBy, timeRange, includeResolved) ==
    LET filtered == FilteredFailures(fs, t, timeRange, includeResolved)
        gs       == GroupFailures(filtered, groupBy, t, << >>)
        sorted   == SortByCount(gs)
    IN  [kind |-> "ok", group_by |-> groupBy, time_range |-> timeRange,
         include_resolved |-> includeResolved,
         total_failures |-> Len(filtered), group_count |-> Len(sorted),
         groups |-> sorted,
         most_common_error |-> MostCommonError(gs, sorted),
         error_distribution |-> ErrorDistribution(sorted),
         of |-> fs, at |-> t]

\* execute() of analyze_failures.  saved tells whether saveFailureGroups
\* got through: it catches and logs whatever the read, the parse or the
\* write of the groups file throws, and execute() returns the report all
\* the same.
AnalyzeWith(group_by, time_range, include_resolved, saved) ==
    /\ opCount < MaxOps
    /\ runCount < MaxRuns
    /\ opCount' = opCount + 1
    /\ runCount' = runCount + 1
    /\ result' = [op |-> "analyze", kind |-> IF failuresOK THEN "ok"
                                             ELSE "storage_error",
                  failure_id |-> ""]
    /\ LET groupBy         == OrDefault(group_by, "error_type")
           timeRange       == OrDefault(time_range, "all")
           includeResolved == OrDefault(include_resolved, FALSE)
       IN  IF ~failuresOK
           THEN \* { error: "Failed to load failures data" }
                /\ report' = [NoReport EXCEPT !.kind = "storage_error",
                                              !.at = now]
                /\ UNCHANGED groups
           ELSE LET rep == AnalyzeReport(failures, now, groupBy, timeRange,
                                         includeResolved)
                IN  /\ report' = rep
                    /\ IF saved
                       THEN groups' = MergeGroups(groups, rep.groups)
                       ELSE UNCHANGED groups
    /\ UNCHANGED <<now, failures, sessions, failuresOK, sessionsOK,
                   inheritedStep, inflight, startup, stream>>

\* An analyze_failures run whose groups are saved.
Analyze(group_by, time_range, include_resolved) ==
    AnalyzeWith(group_by, time_range, include_resolved, TRUE)

\* -------------------------------------------------------- get_failure_info
\* The step numbers of the entries of a step list that have the given
\* status, in list order.
StepsWithStatus(steps, status) ==
    LET Has(st) == st.status = status
        sel == SelectSeq(steps, Has)
    IN  [i \in 1 .. Len(sel) |-> sel[i].step]

\* The invocation changes nothing but what it returns.
ReadOnly ==
    UNCHANGED <<now, failures, sessions, failuresOK, sessionsOK,
                inheritedStep, analytics, inflight, startup, stream>>

GetFailureInfo(fid) ==
    /\ opCount < MaxOps
    /\ opCount' = opCount + 1
    /\ ReadOnly
    /\ LET Fail(kind) == [op |-> "get", kind |-> kind, failure_id |-> fid]
           current == CurrentStep(failures, inheritedStep, fid)
           session == SessionOf(sessions, fid, now)
       IN  result' =
             IF ~failuresOK THEN Fail("storage_error")
             ELSE IF ~Found(failures, fid) THEN Fail("not_found")
             ELSE IF ~sessionsOK THEN Fail("storage_error")
             \* DEBUG_PRINCIPLES[undefined - 1] is undefined; reading its
             \* name throws
             ELSE IF current = Undefined THEN Fail("type_error")
             ELSE [op |-> "get", kind |-> "ok", failure_id |-> fid,
                   current_principle |-> DEBUG_PRINCIPLES[current[1]],
                   completed_principles |->
                       StepsWithStatus(session.debug_steps, "completed"),
                   pending_principles |->
                       StepsWithStatus(session.debug_steps, "pending"),
                   progress_completed |->
                       Len(StepsWithStatus(session.debug_steps,
                                           "completed"))]

\* ----------------------------------------------------------- list_failures
\* status argument: omitted, or a status name.
StatusArgs == {Omitted, <<"new">>, <<"resolved">>}

\* failuresList.sort(newest first): a stable sort on the timestamp.
RECURSIVE SortNewestFirst(_)
SortNewestFirst(list) ==
    IF list = << >> THEN << >>
    ELSE LET rest == SortNewestFirst(Tail(list))
             f    == Head(list)
             k    == Cardinality({i \in 1 .. Len(rest) :
                                     rest[i].timestamp > f.timestamp})
         IN  SubSeq(rest, 1, k) \o << f >> \o SubSeq(rest, k + 1, Len(rest))

\* The listing of a readable store.
Listing(fs, status) ==
    LET Wanted(f) == status = Omitted \/ f.status = status[1]
        list == SortNewestFirst(SelectSeq(ValuesOf(fs), Wanted))
    IN  [op |-> "list", kind |-> "ok", failure_id |-> "",
         total |-> << Len(list) >>,
         failures |-> [i \in 1 .. Len(list) |-> list[i].id]]

\* An unreadable failures file is either absent or has bad content.  An
\* absent file is first created with the content '{}' and then read; bad
\* content is answered with { failures: [] } and no total.
ListFailures(status) ==
    /\ opCount < MaxOps
    /\ opCount' = opCount + 1
    /\ UNCHANGED <<now, sessions, sessionsOK, inheritedStep, analytics,
                   inflight, startup, stream>>
    /\ IF failuresOK
       THEN /\ result' = Listing(failures, status)
            /\ UNCHANGED <<failures, failuresOK>>
       ELSE \E absent \in BOOLEAN :
              IF absent
              THEN /\ failures' = EmptyMap
                   /\ failuresOK' = TRUE
                   /\ result' = Listing(EmptyMap, status)
              ELSE /\ result' = [op |-> "list", kind |-> "ok",
                                 failure_id |-> "", total |-> Undefined,
                                 failures |-> << >>]
                   /\ UNCHANGED <<failures, failuresOK>>

\* --------------------------------------------------- generate_debug_prompt
\* loadFailuresInGroup: the members of the group that the failure store
\* still holds; nothing when the failures file cannot be read.
FailuresInGroup(group, fs, ok) ==
    LET Stored(id) == id \in DOMAIN fs
    IN  IF ok THEN SelectSeq(group.failures, Stored) ELSE << >>

\* The prompt text differs per prompt_style; the stores are read in the
\* same way for every style, and the default style is the one modelled.
GeneratePrompt(group_id, failure_id) ==
    /\ opCount < MaxOps
    /\ opCount' = opCount + 1
    /\ ReadOnly
    /\ LET Answer(kind, n) ==
               [op |-> "prompt", kind |-> kind, group_id |-> group_id,
                failure_id |-> IF failure_id = Omitted THEN ""
                               ELSE failure_id[1],
                failure_count |-> n]
       IN  result' =
             IF group_id = Omitted /\ failure_id = Omitted
             THEN Answer("invalid_argument", 0)
             ELSE IF group_id # Omitted
             THEN IF group_id[1] \in InheritedKeys
                  \* the inherited member has no failures list: the
                  \* TypeError is caught and no member is loaded
                  THEN Answer("empty_group", 0)
                  ELSE IF group_id[1] \notin DOMAIN groups
                  THEN Answer("not_found", 0)
                  ELSE LET members == FailuresInGroup(groups[group_id[1]],
                                                     failures, failuresOK)
                       IN  IF members = << >>
                           THEN Answer("empty_group", 0)
                           ELSE Answer("ok", Len(members))
             ELSE IF ~failuresOK \/ ~Found(failures, failure_id[1])
             THEN Answer("not_found", 0)
             ELSE Answer("ok", 1)

\* ------------------------------------------------------------ environment
\* failures.json becomes unreadable or unparseable (a crash in the middle of
\* a write, an edit from outside).
CorruptFailuresFile ==
    /\ failuresOK
    /\ failuresOK' = FALSE
    /\ failures' = EmptyMap
    /\ UNCHANGED <<now, sessions, sessionsOK, inheritedStep, result, opCount,
                   analytics, inflight, startup, stream>>

\* The same for debug_sessions.json.
CorruptSessionsFile ==
    /\ sessionsOK
    /\ sessionsOK' = FALSE
    /\ sessions' = EmptyMap
    /\ UNCHANGED <<now, failures, failuresOK, inheritedStep, result, opCount,
                   analytics, inflight, startup, stream>>

\* ---------------------------------------------------------- specifications
\* failure_id arguments: an id a registration can return, or an inherited
\* property name.
FailureIdArgs == {FailureId(t) : t \in 1 .. MaxTime} \cup InheritedKeys

Apply ==
    \E fid \in FailureIdArgs, pn \in PrincipleArgs, analysis \in Analyses :
        DebugWithPrinciple(fid, pn, analysis)

Next == Tick \/ RegisterFailure \/ Apply

Spec == Init /\ [][Next]_vars

NextFaults == Next \/ CorruptFailuresFile \/ CorruptSessionsFile

SpecFaults == Init /\ [][NextFaults]_vars

\* ---------------------------------------------- analytics over a given store
\* The stores after the inputs of history h were registered one per clock
\* reading 1, 2, ...
RegisteredFailures(h) ==
    [fid \in {FailureId(i) : i \in 1 .. Len(h)} |->
        LET i == CHOOSE j \in 1 .. Len(h) : FailureId(j) = fid
        IN  StoredFailure(fid, i, h[i])]

RegisteredSessions(h) ==
    [sid \in {SessionId(FailureId(i)) : i \in 1 .. Len(h)} |->
        LET i == CHOOSE j \in 1 .. Len(h) : SessionId(FailureId(j)) = sid
        IN  NewSession(FailureId(i), i)]

\* The status field is maintained outside the tools (no tool writes it
\* after the registration): the records of the ids in done are marked
\* resolved.
MarkResolved(fs, done) ==
    [fid \in DOMAIN fs |->
        IF fid \in done THEN [fs[fid] EXCEPT !.status = "resolved"]
        ELSE fs[fid]]

\* Registration histories: a selection of the inputs, in their order.
Histories ==
    {SelectSeq(RegisterInputs, LAMBDA input : input \in chosen) :
        chosen \in SUBSET {RegisterInputs[i] : i \in 1 .. Len(RegisterInputs)}}

\* A store as registrations and status edits leave it, read at the time of
\* the last registration.
InitStored ==
    \E h \in Histories :
        \E done \in SUBSET DOMAIN RegisteredFailures(h) :
            /\ now = IF h = << >> THEN 1 ELSE Len(h)
            /\ failures = MarkResolved(RegisteredFailures(h), done)
            /\ sessions = RegisteredSessions(h)
            /\ failuresOK = TRUE
            /\ sessionsOK = TRUE
            /\ inheritedStep = Undefined
            /\ result = NoResult
            /\ opCount = 0
            /\ groups = EmptyMap
            /\ report = NoReport
            /\ runCount = 0
            /\ inflight = [p \in Procs |-> Idle]
            /\ startup = SharedStart
            /\ stream = NoStream

AnalyzeFailures ==
    \E group_by \in GroupByArgs, time_range \in TimeRangeArgs,
       include_resolved \in IncludeResolvedArgs :
        Analyze(group_by, time_range, include_resolved)

NextAnalytics == Tick \/ AnalyzeFailures

SpecAnalytics == InitStored /\ [][NextAnalytics]_vars

\* ------------------------------------------- invocations in two processes
\* The handlers are synchronous, so within one process an invocation runs
\* from its first read to its last write without interruption.  Processes
\* that share the data directory are not ordered against each other: every
\* file access of one may fall between two file accesses of the other.

\* The file accesses of a handler, in program order.
Order(op) ==
    IF op = "register"
    THEN << "loadF", "saveF", "loadS", "saveS" >>
    ELSE << "loadF", "loadS", "saveF", "saveS" >>

Finished == 4

\* The file access the invocation performs next.
NextAccess(c) ==
    IF c.op = "none" \/ c.pc >= Finished THEN "none" ELSE Order(c.op)[c.pc + 1]

\* Position of an access in the handler's order.
IndexOf(op, access) == CHOOSE i \in 1 .. Finished : Order(op)[i] = access

\* The invocation has read the file and has not written it yet.
Holds(c, load, save) ==
    /\ c.op # "none"
    /\ c.pc >= IndexOf(c.op, load)
    /\ c.pc < IndexOf(c.op, save)

\* Faulty variant of WrittenFailures: what the file holds now is merged
\* under the object that is written.
WrittenFailures_Merged(c) ==
    (IF c.op = "register"
     THEN Put(c.fs, c.failure_id,
              StoredFailure(c.failure_id, c.t, InputType42))
     ELSE [c.fs EXCEPT ![c.failure_id].current_debug_step =
                           AdvancedStep(Undefined, c.k)]) @@ failures

\* JSON.stringify(failures): the object parsed at the load, with the
\* invocation's own change.
WrittenFailures(c) ==
    IF c.op = "register"
    THEN Put(c.fs, c.failure_id,
             StoredFailure(c.failure_id, c.t, InputType42))
    ELSE [c.fs EXCEPT ![c.failure_id].current_debug_step =
                          AdvancedStep(Undefined, c.k)]

\* JSON.stringify(sessions), likewise.
WrittenSessions(c) ==
    IF c.op = "register"
    THEN Put(c.ss, SessionId(c.failure_id), NewSession(c.failure_id, c.t))
    ELSE LET session == SessionOf(c.ss, c.failure_id, c.t)
         IN  Put(c.ss, SessionId(c.failure_id),
                 [session EXCEPT !.debug_steps =
                     AppliedSteps(session.debug_steps, c.k, c.t,
                                  c.analysis)])

\* The other processes that hold a copy of the file learn nothing of the
\* write; the model notes that their copy is stale.
AfterSave(p, load, save) ==
    [q \in Procs |->
        IF q = p THEN [inflight[p] EXCEPT !.pc = @ + 1]
        ELSE IF ~Holds(inflight[q], load, save) THEN inflight[q]
        ELSE IF load = "loadF" THEN [inflight[q] EXCEPT !.staleF = TRUE]
        ELSE [inflight[q] EXCEPT !.staleS = TRUE]]

\* register_pytest_failure up to the load of the failures file.
StartRegister(p) ==
    /\ inflight[p].op = "none"
    /\ inflight' = [inflight EXCEPT ![p] =
           [Idle EXCEPT !.pc = 1, !.op = "register",
                        !.failure_id = FailureId(now), !.t = now,
                        !.fs = LoadOrEmpty(failures, failuresOK)]]
    /\ UNCHANGED <<now, failures, sessions, failuresOK, sessionsOK,
                   inheritedStep, result, opCount, analytics, startup,
                   stream>>

\* debug_with_principle up to the range check: it throws there, or goes on
\* to load the sessions file.
StartApply(p, fid, pn, analysis) ==
    /\ inflight[p].op = "none"
    /\ UNCHANGED <<now, failuresOK, sessionsOK, analytics, startup, stream>>
    /\ LET current == CurrentStep(failures, inheritedStep, fid)
           k       == PrincipleNumber(pn, current)
           Thrown(kind, n) ==
               /\ Throw(kind, fid, pn, n)
               /\ opCount' = opCount + 1
               /\ inflight' = [inflight EXCEPT ![p] =
                      [Idle EXCEPT !.pc = Finished, !.op = "apply",
                                   !.failure_id = fid, !.pn = pn]]
       IN  IF ~failuresOK THEN Thrown("storage_error", Undefined)
           ELSE IF ~Found(failures, fid) THEN Thrown("not_found", Undefined)
           ELSE IF ~InRange(k) THEN Thrown("invalid_argument", k)
           ELSE IF k = Undefined THEN Thrown("type_error", k)
           ELSE /\ inflight' = [inflight EXCEPT ![p] =
                       [Idle EXCEPT !.pc = 1, !.op = "apply",
                                    !.failure_id = fid, !.pn = pn,
                                    !.k = k[1], !.analysis = analysis,
                                    !.fs = failures]]
                /\ UNCHANGED <<failures, sessions, inheritedStep, result,
                               opCount>>

\* The load of the sessions file: the registration takes an unreadable file
\* for an empty object, the step progression throws.
LoadSessionsFile(p) ==
    LET c == inflight[p]
    IN  /\ NextAccess(c) = "loadS"
        /\ UNCHANGED <<now, failuresOK, sessionsOK, analytics, startup,
                       stream>>
        /\ IF c.op = "apply" /\ LoadSessions(sessions, sessionsOK) = << >>
           THEN /\ Throw("storage_error", c.failure_id, c.pn, <<c.k>>)
                /\ opCount' = opCount + 1
                /\ inflight' = [inflight EXCEPT ![p].pc = Finished]
           ELSE /\ inflight' = [inflight EXCEPT
                       ![p].pc = @ + 1,
                       ![p].ss = LoadOrEmpty(sessions, sessionsOK),
                       ![p].t  = IF c.op = "apply" THEN now ELSE @]
                /\ UNCHANGED <<failures, sessions, inheritedStep, result,
                               opCount>>

\* fs.writeFileSync(FAILURES_FILE, ...)
SaveFailuresFile(p) ==
    /\ NextAccess(inflight[p]) = "saveF"
    /\ failures' = WrittenFailures(inflight[p])
    /\ failuresOK' = TRUE
    /\ inflight' = AfterSave(p, "loadF", "saveF")
    /\ UNCHANGED <<now, sessions, sessionsOK, inheritedStep, result, opCount,
                   analytics, startup, stream>>

\* fs.writeFileSync(DEBUG_SESSIONS_FILE, ...), after which the handler
\* returns.
SaveSessionsFile(p) ==
    LET c == inflight[p]
    IN  /\ NextAccess(c) = "saveS"
        /\ sessions' = WrittenSessions(c)
        /\ sessionsOK' = TRUE
        /\ inflight' = AfterSave(p, "loadS", "saveS")
        /\ result' =
              IF c.op = "register"
              THEN [NoResult EXCEPT !.op = "register", !.kind = "ok",
                                    !.failure_id = c.failure_id]
              ELSE ApplyResult(c.failure_id, c.pn, c.k, c.analysis)
        /\ opCount' = opCount + 1
        /\ UNCHANGED <<now, failures, failuresOK, inheritedStep, analytics,
                       startup, stream>>

\* failure_id arguments of the racing invocations: the ids a registration
\* can have returned.
IssuedIds == {FailureId(t) : t \in 1 .. MaxTime}

\* principle_number arguments of the racing invocations.
RacePrincipleArgs == {Omitted, <<2>>}

\* The stores after one registration at the first clock reading.
InitRace ==
    /\ now = 1
    /\ failures = RegisteredFailures(<< InputType42 >>)
    /\ sessions = RegisteredSessions(<< InputType42 >>)
    /\ failuresOK = TRUE
    /\ sessionsOK = TRUE
    /\ inheritedStep = Undefined
    /\ result = NoResult
    /\ opCount = 0
    /\ groups = EmptyMap
    /\ report = NoReport
    /\ runCount = 0
    /\ inflight = [p \in Procs |-> Idle]
    /\ startup = SharedStart
    /\ stream = NoStream

RaceStep(p) ==
    \/ StartRegister(p)
    \/ \E fid \in IssuedIds, pn \in RacePrincipleArgs :
           StartApply(p, fid, pn, "root cause is X")
    \/ LoadSessionsFile(p)
    \/ SaveFailuresFile(p)
    \/ SaveSessionsFile(p)

NextRace == Tick \/ \E p \in Procs : RaceStep(p)

SpecRace == InitRace /\ [][NextRace]_vars

\* ------------------------------------------- a walk through the principles
\* debug_with_principle without a principle_number, again and again on the
\* failure registered first.
ApplyNext ==
    /\ opCount < MaxCalls
    /\ \E analysis \in Analyses :
          ApplyPrinciple(FailureId(1), Omitted, analysis)

NextWalk == Tick \/ ApplyNext

SpecWalk == InitRace /\ [][NextWalk]_vars

\* ----------------------------------------------------- HTTP stream handler
maxReconnectAttempts == 5

\* What the handler leaves alone.
Stores ==
    <<failures, sessions, failuresOK, sessionsOK, inheritedStep, result,
      opCount, analytics, inflight, startup>>

\* handleStreamResponse up to the registration of its handlers.  When the
\* initial message cannot be written it returns before the interval is set.
Connect(writeOK) ==
    /\ stream.phase = "none"
    /\ stream' =
          IF writeOK
          THEN [stream EXCEPT !.phase = "open", !.connectionActive = TRUE,
                              !.timer = TRUE, !.sent = "connection"]
          ELSE [stream EXCEPT !.phase = "open"]
    /\ UNCHANGED <<now, Stores>>

\* The callback of the keep-alive interval.  sendMessage returns false when
\* the connection is not active, or when res.write throws, in which case it
\* has set connectionActive to false.  writeOK tells whether the write of
\* the ping succeeds, nextOK whether the write that follows it does.
KeepAlive(writeOK, nextOK) ==
    /\ stream.timer
    /\ stream.ticks < MaxTicks
    /\ UNCHANGED <<now, Stores>>
    /\ LET fired == [stream EXCEPT !.ticks = @ + 1]
           pinged == [fired EXCEPT !.lastPingSent = now,
                                   !.pings = Append(@, writeOK)]
           attempts == stream.reconnectAttempts + 1
       IN  stream' =
             IF ~stream.connectionActive
             THEN [fired EXCEPT !.timer = FALSE]
             ELSE IF writeOK
             THEN IF stream.reconnectAttempts > 0
                  THEN IF nextOK
                       THEN [pinged EXCEPT !.reconnectAttempts = 0,
                                           !.sent = "recovery_success"]
                       ELSE [pinged EXCEPT !.reconnectAttempts = 0,
                                           !.sent = "ping",
                                           !.connectionActive = FALSE]
                  ELSE [pinged EXCEPT !.sent = "ping"]
             ELSE IF attempts <= maxReconnectAttempts
             THEN [pinged EXCEPT !.connectionActive = FALSE,
                                 !.reconnectAttempts = attempts,
                                 !.pending = @ + 1]
             ELSE [pinged EXCEPT !.connectionActive = FALSE,
                                 !.reconnectAttempts = attempts,
                                 !.timer = FALSE,
                                 !.sent = IF nextOK THEN "connection_error"
                                          ELSE @,
                                 !.ended = TRUE]

\* The timeout scheduled after a failed ping: the recovery message is sent
\* when the connection is active.
RecoveryTimeout(writeOK) ==
    /\ stream.pending > 0
    /\ UNCHANGED <<now, Stores>>
    /\ stream' =
          IF ~stream.connectionActive
          THEN [stream EXCEPT !.pending = @ - 1]
          ELSE IF writeOK
          THEN [stream EXCEPT !.pending = @ - 1, !.sent = "reconnect_attempt"]
          ELSE [stream EXCEPT !.pending = @ - 1, !.connectionActive = FALSE]

\* The close, aborted and timeout events of the request.
ClientClose ==
    /\ stream.phase = "open"
    /\ stream.sent # "none"
    /\ ~stream.closed
    /\ stream' = [stream EXCEPT !.connectionActive = FALSE,
                                !.timer = FALSE, !.closed = TRUE]
    /\ UNCHANGED <<now, Stores>>

NextStream ==
    \/ Tick
    \/ \E writeOK \in BOOLEAN : Connect(writeOK)
    \/ \E writeOK \in BOOLEAN, nextOK \in BOOLEAN : KeepAlive(writeOK, nextOK)
    \/ \E writeOK \in BOOLEAN : RecoveryTimeout(writeOK)
    \/ ClientClose

SpecStream == Init /\ [][NextStream]_vars

\* ------------------------------- register_pytest_failure, writes checked
\* The version of the registration that catches the errors of its two
\* writes.  wroteFailures and wroteSessions tell whether the file system
\* accepted the write (a write that is refused leaves the file as it was).
\* Both writes are attempted whatever the outcome of the first; the payload
\* carries error: true when either was refused.
RegisterChecked(input, wroteFailures, wroteSessions) ==
    /\ opCount < MaxOps
    /\ opCount' = opCount + 1
    /\ LET failureId == FailureId(now)
           fs == Put(LoadOrEmpty(failures, failuresOK), failureId,
                     StoredFailure(failureId, now, input))
           ss == Put(LoadOrEmpty(sessions, sessionsOK), SessionId(failureId),
                     NewSession(failureId, now))
       IN  /\ IF wroteFailures
              THEN failures' = fs /\ failuresOK' = TRUE
              ELSE UNCHANGED <<failures, failuresOK>>
           /\ IF wroteSessions
              THEN sessions' = ss /\ sessionsOK' = TRUE
              ELSE UNCHANGED <<sessions, sessionsOK>>
           /\ result' = [NoResult EXCEPT
                  !.op = "register",
                  !.kind = IF wroteFailures /\ wroteSessions THEN "ok"
                           ELSE "error",
                  !.failure_id = failureId]
    /\ UNCHANGED <<now, inheritedStep, analytics, inflight, startup, stream>>

RegisterWithChecks ==
    \E i \in 1 .. Len(RegisterInputs), wroteFailures \in BOOLEAN,
       wroteSessions \in BOOLEAN :
        RegisterChecked(RegisterInputs[i], wroteFailures, wroteSessions)

NextChecked == Tick \/ RegisterWithChecks

SpecChecked == Init /\ [][NextChecked]_vars

\* ---------------------------------------------------------------- launch
\* The static imports of cli.ts are evaluated before its body, in source
\* order: the tool modules first, then http-server.

\* The tool modules are evaluated.  The data directory module takes
\* process.env.DATA_DIR or the home default and looks for a writable
\* directory (a directory that is not writable is replaced by the first
\* fallback, which is also stored in the environment); the tools that
\* import it fix their file paths there.  The other tools fix theirs under
\* the working directory.
ImportTools ==
    /\ startup.pc = "import_tools"
    /\ \E writable \in BOOLEAN :
          LET DATA_DIR == OrDefault(startup.env, HomeDir)
          IN  startup' =
                IF writable \/ DATA_DIR = HomeDir
                THEN [startup EXCEPT !.pc = "import_http",
                                     !.actualDataDir = << DATA_DIR >>,
                                     !.cwdDataDir = << CwdData >>]
                ELSE [startup EXCEPT !.pc = "import_http",
                                     !.env = << HomeDir >>,
                                     !.actualDataDir = << HomeDir >>,
                                     !.cwdDataDir = << CwdData >>]
    /\ UNCHANGED <<now, failures, sessions, failuresOK, sessionsOK,
                   inheritedStep, result, opCount, analytics, inflight,
                   stream>>

\* http-server is evaluated: it takes process.env.DATA_DIR or ./data and
\* stores the directory in the environment.
ImportHttpServer ==
    /\ startup.pc = "import_http"
    /\ LET DATA_DIR == OrDefault(startup.env, CwdData)
       IN  startup' = [startup EXCEPT !.pc = "cli_body",
                                      !.httpDataDir = << DATA_DIR >>,
                                      !.env = << DATA_DIR >>]
    /\ UNCHANGED <<now, failures, sessions, failuresOK, sessionsOK,
                   inheritedStep, result, opCount, analytics, inflight,
                   stream>>

\* The body of cli.ts: the default options, the option parsing, the
\* assignment of process.env.DATA_DIR, then the server starts.
RunCli ==
    /\ startup.pc = "cli_body"
    /\ LET dataDir == IF startup.arg # Omitted THEN startup.arg[1]
                      ELSE OrDefault(startup.env, CwdData)
       IN  startup' = [startup EXCEPT !.pc = "serving",
                                      !.optionsDataDir = << dataDir >>,
                                      !.env = << dataDir >>]
    /\ UNCHANGED <<now, failures, sessions, failuresOK, sessionsOK,
                   inheritedStep, result, opCount, analytics, inflight,
                   stream>>

\* The launches: DATA_DIR unset or set, --data-dir omitted or given.
EnvArgs == {Undefined, << EnvDir >>}
DataDirArgs == {Omitted, << OptionDir >>}

InitLaunch ==
    /\ now = 1
    /\ failures = EmptyMap
    /\ sessions = EmptyMap
    /\ failuresOK = TRUE
    /\ sessionsOK = TRUE
    /\ inheritedStep = Undefined
    /\ result = NoResult
    /\ opCount = 0
    /\ groups = EmptyMap
    /\ report = NoReport
    /\ runCount = 0
    /\ inflight = [p \in Procs |-> Idle]
    /\ \E env \in EnvArgs, arg \in DataDirArgs : startup = Launch(env, arg)
    /\ stream = NoStream

\* The tools are invoked once the server has started.
Serve ==
    /\ startup.pc = "serving"
    /\ (Tick \/ RegisterFailure \/ Apply)

NextLaunch == ImportTools \/ ImportHttpServer \/ RunCli \/ Serve

SpecLaunch == InitLaunch /\ [][NextLaunch]_vars

\* ------------------------------------------------- the read-only operations
GetInfo == \E fid \in FailureIdArgs : GetFailureInfo(fid)

List == \E status \in StatusArgs : ListFailures(status)

\* group_id arguments: a stored group, a group of the last report, the
\* first id a run at the current clock reading would give, or an inherited
\* property name.
GroupIdArgs ==
    (DOMAIN groups) \cup {report.groups[i].id : i \in 1 .. Len(report.groups)}
        \cup {GroupId(now, 0)} \cup InheritedKeys

Prompt ==
    \/ GeneratePrompt(Omitted, Omitted)
    \/ \E gid \in GroupIdArgs : GeneratePrompt(<<gid>>, Omitted)
    \/ \E fid \in FailureIdArgs : GeneratePrompt(Omitted, <<fid>>)

AnalyzeDefault == Analyze(Omitted, Omitted, Omitted)

NextQueries ==
    \/ Tick \/ AnalyzeDefault \/ GetInfo \/ List \/ Prompt
    \/ CorruptFailuresFile \/ CorruptSessionsFile

SpecQueries == InitStored /\ [][NextQueries]_vars

\* ------------------------------------------- prompts for reported groups
\* analyze_failures with the default arguments, the save of the groups
\* going through or not.
AnalyzeAndSave ==
    \E saved \in BOOLEAN : AnalyzeWith(Omitted, Omitted, Omitted, saved)

PromptForGroup == \E gid \in GroupIdArgs : GeneratePrompt(<<gid>>, Omitted)

NextGroups == Tick \/ AnalyzeAndSave \/ PromptForGroup

SpecGroups == InitStored /\ [][NextGroups]_vars

\* ------------------------------------------------------------- properties
\* The step taken is an invocation of debug_with_principle.
Applied == opCount' # opCount /\ result'.op = "apply"

\* ... that succeeded.
AppliedOK == Applied /\ result'.kind = "ok"

\* The debug_steps of the session of failure fid in the session store ss.
StepsOf(ss, fid) == ss[SessionId(fid)].debug_steps

\* Indices of the entries of a step list that carry step number k.
EntriesFor(steps, k) == {i \in 1 .. Len(steps) : steps[i].step = k}

C2_PointerIsNext ==
    [][(AppliedOK /\ result'.failure_id \in DOMAIN failures) =>
        failures'[result'.failure_id].current_debug_step =
            (IF result'.k + 1 < 9 THEN result'.k + 1 ELSE 9)]_vars

\* C2 witness: the backward jump happened: principle k was applied last, the
\* pointer is k+1, and a principle beyond k+1 had already been completed.
C2_Witness ==
    /\ result.op = "apply" /\ result.kind = "ok"
    /\ result.failure_id \in DOMAIN failures
    /\ failures[result.failure_id].current_debug_step = result.k + 1
    /\ \E i \in 1 .. Len(StepsOf(sessions, result.failure_id)) :
          /\ StepsOf(sessions, result.failure_id)[i].step > result.k + 1
          /\ StepsOf(sessions, result.failure_id)[i].status = "completed"

\* C3: across an operation applied to a failure, its current_debug_step is
\* never lower after the operation than before it.
C3_NeverDecreases ==
    [][Applied =>
        \A fid \in (DOMAIN failures) \cap (DOMAIN failures') :
            failures'[fid].current_debug_step
                >= failures[fid].current_debug_step]_vars

NoDuplicateSteps(ss) ==
    \A sid \in DOMAIN ss :
        \A i, j \in 1 .. Len(ss[sid].debug_steps) :
            ss[sid].debug_steps[i].step = ss[sid].debug_steps[j].step
                => i = j

\* C5: a session holds at most one DebugStep per step number; applying a
\* number that already has an entry overwrites that entry's analysis and
\* adds no second entry for the number.
C5_OneEntryPerStep ==
    [][/\ NoDuplicateSteps(sessions) /\ NoDuplicateSteps(sessions')
       /\ (/\ AppliedOK
           /\ SessionId(result'.failure_id) \in DOMAIN sessions
           /\ EntriesFor(StepsOf(sessions, result'.failure_id), result'.k)
                 # {})
          => LET before == StepsOf(sessions, result'.failure_id)
                 after  == StepsOf(sessions', result'.failure_id)
             IN  /\ EntriesFor(after, result'.k)
                      = EntriesFor(before, result'.k)
                 /\ \A i \in EntriesFor(after, result'.k) :
                        after[i].llm_analysis = result'.analysis
                 /\ Len(after) \in {Len(before), Len(before) + 1}]_vars

\* C5 witness: a principle was applied a second time: its entry was completed
\* later than the placeholder of the next principle, which its first
\* application created, was started.
C5_Witness ==
    /\ result.op = "apply" /\ result.kind = "ok"
    /\ LET steps == StepsOf(sessions, result.failure_id)
       IN  \E i, j \in 1 .. Len(steps) :
              /\ steps[i].step = result.k
              /\ steps[j].step = result.k + 1
              /\ steps[j].status = "pending"
              /\ steps[i].completed_at # Null
              /\ steps[i].completed_at[1] > steps[j].started_at
              /\ steps[i].llm_analysis = result.analysis

\* C6: apply_principle without a principle_number applies the principle the
\* failure's current_debug_step names at the time of the call; on a freshly
\* registered failure step 1 is completed with the given analysis and
\* current_debug_step becomes 2.
C6_DefaultsToCurrentStep ==
    [][(/\ AppliedOK
        /\ result'.principle_number = Omitted
        /\ result'.failure_id \in DOMAIN failures) =>
        LET fid   == result'.failure_id
            after == StepsOf(sessions', fid)
        IN  /\ result'.k = failures[fid].current_debug_step
            /\ \E i \in 1 .. Len(after) :
                  /\ after[i].step = failures[fid].current_debug_step
                  /\ after[i].status = "completed"
                  /\ after[i].llm_analysis = result'.analysis
            /\ (/\ failures[fid] = StoredFailure(fid, failures[fid].timestamp,
                                               InputType42)
                /\ SessionId(fid) \in DOMAIN sessions
                /\ sessions[SessionId(fid)]
                     = NewSession(fid, sessions[SessionId(fid)].created_at))
               => /\ after[1].step = 1
                  /\ after[1].status = "completed"
                  /\ after[1].llm_analysis = result'.analysis
                  /\ failures'[fid].current_debug_step = 2]_vars

\* C6 witness: a call without principle_number completed step 1 of a failure
\* and left its pointer at 2.
C6_Witness ==
    /\ result.op = "apply" /\ result.kind = "ok"
    /\ result.principle_number = Omitted
    /\ result.k = 1
    /\ result.failure_id \in DOMAIN failures
    /\ failures[result.failure_id].current_debug_step = 2
    /\ StepsOf(sessions, result.failure_id)[1].status = "completed"
    /\ StepsOf(sessions, result.failure_id)[1].llm_analysis = result.analysis

\* C7: a successful apply_principle with effective number k reports
\* is_complete exactly when k = 9 and next_principle null exactly when k = 9;
\* otherwise next_principle describes principle k+1.
C7_CompletionReport ==
    (result.op = "apply" /\ result.kind = "ok") =>
        /\ result.is_complete <=> (result.k = 9)
        /\ (result.next_principle = Null) <=> (result.k = 9)
        /\ result.k # 9 =>
              result.next_principle =
                  << [number |-> result.k + 1,
                      name   |-> DEBUG_PRINCIPLES[result.k + 1].name] >>

\* C7 witness: principle 9 was applied and reported complete.
C7_Witness ==
    /\ result.op = "apply" /\ result.kind = "ok" /\ result.k = 9
    /\ result.is_complete
    /\ result.next_principle = Null

\* C8: apply_principle with a failure_id that is not in the failure store
\* fails with a not-found error and leaves both stores as they were.
C8_NotFoundNoChange ==
    [][(Applied /\ failuresOK /\ result'.failure_id \notin DOMAIN failures) =>
        /\ result'.kind = "not_found"
        /\ failures' = failures
        /\ sessions' = sessions]_vars

\* C9: apply_principle with a supplied principle_number outside [1,9], on an
\* existing failure, fails with an invalid-argument error and leaves both
\* stores unchanged.
C9_OutOfRangeRejected ==
    [][(/\ Applied /\ failuresOK /\ sessionsOK
        /\ result'.failure_id \in DOMAIN failures
        /\ result'.principle_number # Omitted
        /\ result'.principle_number[1] \notin 1 .. 9) =>
        /\ result'.kind = "invalid_argument"
        /\ failures' = failures
        /\ sessions' = sessions]_vars

\* The invocation reaches a store read that fails: the failures file, or,
\* once the lookup has returned something and the range check has let the
\* principle number (0: undefined) through, the sessions file.
ReadFails ==
    \/ ~failuresOK
    \/ /\ ~sessionsOK
       /\ Found(failures, result'.failure_id)
       /\ result'.k \in 0 .. 9

\* C10: when reading or parsing either store fails during apply_principle,
\* the operation fails with a storage error and writes neither store.
C10_ReadFailureNoWrite ==
    [][(Applied /\ ReadFails) =>
        /\ result'.kind = "storage_error"
        /\ failures' = failures
        /\ sessions' = sessions
        /\ inheritedStep' = inheritedStep
        /\ failuresOK' = failuresOK
        /\ sessionsOK' = sessionsOK]_vars

\* C10 witness: the failure was found and then the sessions file could not
\* be read.
C10_Witness ==
    /\ result.op = "apply" /\ result.kind = "storage_error"
    /\ failuresOK /\ ~sessionsOK
    /\ result.failure_id \in DOMAIN failures

\* The step taken is a register_pytest_failure that returned its ids.
Registered ==
    opCount' # opCount /\ result'.op = "register" /\ result'.kind = "ok"

C12_OneToOne ==
    /\ \A fid \in DOMAIN failures :
          /\ SessionId(fid) \in DOMAIN sessions
          /\ sessions[SessionId(fid)].failure_id = fid
    /\ \A sid \in DOMAIN sessions :
          /\ sessions[sid].failure_id \in DOMAIN failures
          /\ sid = SessionId(sessions[sid].failure_id)

\* C13: a stored FailureRecord and its DebugSession stay stored and keep
\* their identity across every operation, and a registration stores its
\* record under an id no earlier registration used.
C13_StoredForGood ==
    [][/\ \A fid \in DOMAIN failures :
             /\ fid \in DOMAIN failures'
             /\ failures'[fid].id = failures[fid].id
             /\ failures'[fid].timestamp = failures[fid].timestamp
             /\ failures'[fid].error_message = failures[fid].error_message
             /\ failures'[fid].file_path = failures[fid].file_path
       /\ \A sid \in DOMAIN sessions :
             /\ sid \in DOMAIN sessions'
             /\ sessions'[sid].failure_id = sessions[sid].failure_id
       /\ Registered => result'.failure_id \notin DOMAIN failures]_vars

\* The step taken is a run of analyze_failures.
Analyzed == runCount' # runCount

\* C15: when analyze runs with include_resolved false or omitted, no failure
\* whose status is resolved is in the member list of a returned group, for
\* every group_by and time_range.
C15_ResolvedExcluded ==
    (report.kind = "ok" /\ ~report.include_resolved) =>
        \A i \in 1 .. Len(report.groups) :
            \A j \in 1 .. Len(report.groups[i].failures) :
                /\ report.groups[i].failures[j] \in DOMAIN report.of
                /\ report.of[report.groups[i].failures[j]].status
                       # "resolved"

\* C15 witness: a run without include_resolved returned a group although
\* the store held a resolved failure with the same error type as a member.
C15_Witness ==
    /\ report.kind = "ok" /\ ~report.include_resolved
    /\ report.group_by = "error_type" /\ report.time_range = "all"
    /\ \E i \in 1 .. Len(report.groups) :
          \E fid \in DOMAIN report.of :
              /\ report.of[fid].status = "resolved"
              /\ report.groups[i].count = 1
              /\ GroupKey(report.of[fid], "error_type")
                     = report.groups[i].key

\* C16: the returned groups partition the filtered failure set: every
\* filtered id is in exactly one member list, once; two failures share a
\* group exactly when their grouping keys are equal; each count is the
\* length of the member list; total_failures is the sum of the counts.
C16_GroupsPartition ==
    report.kind = "ok" =>
        LET gs       == report.groups
            filtered == FilteredFailures(report.of, report.at,
                                         report.time_range,
                                         report.include_resolved)
            ids      == {filtered[n].id : n \in 1 .. Len(filtered)}
            Places(id) == {<<i, j>> \in (1 .. Len(gs)) \X (1 .. Len(filtered)) :
                              /\ j <= Len(gs[i].failures)
                              /\ gs[i].failures[j] = id}
            GroupOf(id) == CHOOSE i \in 1 .. Len(gs) :
                              \E j \in 1 .. Len(gs[i].failures) :
                                  gs[i].failures[j] = id
        IN  /\ \A id \in ids : Cardinality(Places(id)) = 1
            /\ \A i \in 1 .. Len(gs) :
                  /\ gs[i].count = Len(gs[i].failures)
                  /\ Len(gs[i].failures) <= Len(filtered)
                  /\ \A j \in 1 .. Len(gs[i].failures) :
                        gs[i].failures[j] \in ids
            /\ \A a, b \in 1 .. Len(filtered) :
                  (GroupOf(filtered[a].id) = GroupOf(filtered[b].id))
                      <=> (GroupKey(filtered[a], report.group_by)
                             = GroupKey(filtered[b], report.group_by))
            /\ report.total_failures = SumCounts(gs)
            /\ report.total_failures = Cardinality(ids)

\* C16 witness: grouping three failures by error type returned a group of
\* two and a group of one.
C16_Witness ==
    /\ report.kind = "ok" /\ report.group_by = "error_type"
    /\ report.total_failures = 3
    /\ Len(report.groups) = 2
    /\ report.groups[1].count = 2
    /\ report.groups[2].count = 1

\* What two runs must agree on, per group.
Content(gs) ==
    {[pattern |-> gs[i].pattern, count |-> gs[i].count,
      common_error_type |-> gs[i].common_error_type,
      members |-> {gs[i].failures[j] : j \in 1 .. Len(gs[i].failures)}] :
        i \in 1 .. Len(gs)}

GroupIds(gs) == {gs[i].id : i \in 1 .. Len(gs)}

\* The report is that of a successful analyze(group_by = error_type) with
\* the other arguments at their defaults.
ByErrorType(r) ==
    /\ r.kind = "ok" /\ r.group_by = "error_type"
    /\ r.time_range = "all" /\ ~r.include_resolved

\* C17: analyze(group_by = error_type) run twice on an unchanged failure set
\* returns groups with identical pattern, count, common_error_type and
\* member-id sets, and the group ids of the second run differ from those of
\* the first.
C17_SameContentNewIds ==
    [][(/\ Analyzed /\ ByErrorType(report) /\ ByErrorType(report')
        /\ report.of = failures /\ failures' = failures) =>
        /\ Content(report'.groups) = Content(report.groups)
        /\ GroupIds(report'.groups) \cap GroupIds(report.groups) = {}]_vars

\* C18: the persisted group store only grows: a run adds its groups under
\* ids not yet in the store and removes or overwrites no stored group.
C18_GroupStoreGrows ==
    [][Analyzed =>
        /\ \A gid \in DOMAIN groups :
              gid \in DOMAIN groups' /\ groups'[gid] = groups[gid]
        /\ report'.kind = "ok" =>
              \A i \in 1 .. Len(report'.groups) :
                  /\ report'.groups[i].id \notin DOMAIN groups
                  /\ report'.groups[i].id \in DOMAIN groups']_vars

\* C19: for every group_by mode and non-empty filtered failure set,
\* most_common_error is an error type whose total in error_distribution is
\* maximal.
C19_MostCommonIsMaximal ==
    (report.kind = "ok" /\ report.total_failures > 0) =>
        /\ report.most_common_error \in DOMAIN report.error_distribution
        /\ \A ty \in DOMAIN report.error_distribution :
              report.error_distribution[report.most_common_error]
                  >= report.error_distribution[ty]

\* The step taken is an invocation of get_failure_info.
Got == opCount' # opCount /\ result'.op = "get"

\* C14: get_failure_info with an id that is not in the failure store fails
\* with a not-found condition: no success-shaped payload, no crash.
C14_GetNotFound ==
    [][(Got /\ failuresOK /\ result'.failure_id \notin DOMAIN failures) =>
        result'.kind = "not_found"]_vars

\* The step taken is an invocation of one of the read-only operations.
Queried ==
    opCount' # opCount /\ result'.op \in {"get", "list", "prompt"}

\* C20: generate_prompt, list_failures and get_failure_info change none of
\* the three stores, whether they succeed or fail.
C20_QueriesChangeNothing ==
    [][Queried =>
        /\ failures' = failures /\ failuresOK' = failuresOK
        /\ sessions' = sessions /\ sessionsOK' = sessionsOK
        /\ groups' = groups]_vars

\* The step taken is an invocation of generate_debug_prompt.
Prompted == opCount' # opCount /\ result'.op = "prompt"

\* The answer of generate_debug_prompt is an error payload.
PromptErrors == {"invalid_argument", "not_found", "empty_group"}

\* C21: generate_prompt answers with an error payload when neither id is
\* given, or when the id it is given is not in the corresponding store.
C21_PromptErrorPayload ==
    [][(/\ Prompted
        /\ \/ result'.group_id = Omitted /\ result'.failure_id = ""
           \/ /\ result'.group_id # Omitted
              /\ result'.group_id[1] \notin DOMAIN groups
           \/ /\ result'.group_id = Omitted
              /\ result'.failure_id \notin DOMAIN failures)
       => result'.kind \in PromptErrors]_vars

\* Process q writes the failures file in this step.
SavesFailures(q) ==
    NextAccess(inflight[q]) = "saveF" /\ inflight'[q].pc = inflight[q].pc + 1

\* Process q writes the sessions file in this step.
SavesSessions(q) ==
    NextAccess(inflight[q]) = "saveS" /\ inflight'[q].pc = inflight[q].pc + 1

\* C22: when two invocations both load a store before either saves it, the
\* store after both saves is what the later saver wrote, and the change of
\* the earlier saver (its new failure and session, its advanced pointer
\* and steps) is absent.
C22_LastWriteWins ==
    [][\A q \in Procs : \A p \in Procs \ {q} :
        LET later   == inflight[q]
            earlier == inflight[p]
            fid     == earlier.failure_id
            sid     == SessionId(fid)
        IN  /\ (SavesFailures(q) /\ later.staleF) =>
                  /\ failures' = WrittenFailures(later)
                  /\ (later.failure_id # fid /\ earlier.op = "register"
                      /\ fid \notin DOMAIN later.fs)
                        => fid \notin DOMAIN failures'
                  /\ (later.failure_id # fid /\ earlier.op = "apply")
                        => failures'[fid] = later.fs[fid]
            /\ (SavesSessions(q) /\ later.staleS) =>
                  /\ sessions' = WrittenSessions(later)
                  /\ (later.failure_id # fid /\ earlier.op = "register"
                      /\ sid \notin DOMAIN later.ss)
                        => sid \notin DOMAIN sessions'
                  /\ (later.failure_id # fid /\ earlier.op = "apply")
                        => sessions'[sid] = later.ss[sid]]_vars

\* Both invocations have returned, a registration saved the failures file
\* first and a step progression that had loaded the file before saved it
\* after: the registered failure is gone and the pointer is advanced.
C22_Witness ==
    \E q \in Procs : \E p \in Procs \ {q} :
        /\ inflight[p].pc = Finished /\ inflight[q].pc = Finished
        /\ inflight[p].op = "register" /\ inflight[q].op = "apply"
        /\ inflight[q].staleF
        /\ inflight[p].failure_id \notin DOMAIN failures
        /\ failures[inflight[q].failure_id].current_debug_step = 2

\* The step taken is a tool invocation that returned or threw.
Invoked == opCount' # opCount

\* C23: unparseable store content is never fatal: an operation that loads
\* such a store goes on with an empty map and completes.
C23_CorruptionNotFatal ==
    [][(Invoked /\ (~failuresOK \/ ~sessionsOK)) =>
        result'.kind # "storage_error"]_vars

\* C24: when the server was started with --data-dir <dir>, the tools have
\* their store files in <dir>.
C24_DataDirTakesEffect ==
    (startup.pc = "serving" /\ startup.arg # Omitted) =>
        /\ startup.actualDataDir = startup.arg
        /\ startup.cwdDataDir = startup.arg

AllNineCompleted(steps) ==
    /\ Len(steps) = NumPrinciples
    /\ \A i \in 1 .. Len(steps) :
          steps[i].step = i /\ steps[i].status = "completed"

\* C26: from a freshly registered failure, the n-th of nine successive
\* apply_principle calls without a principle_number completes principle n;
\* only the ninth reports is_complete, and after it the session holds
\* exactly nine entries, all completed.
C26_NineCallsComplete ==
    [][(Applied /\ opCount' <= NumPrinciples) =>
        /\ result'.kind = "ok"
        /\ result'.k = opCount'
        /\ result'.is_complete = (opCount' = NumPrinciples)
        /\ opCount' = NumPrinciples =>
              AllNineCompleted(StepsOf(sessions', FailureId(1)))]_vars

\* C26 witness: the ninth call has returned.
C26_Witness ==
    /\ opCount = NumPrinciples
    /\ result.op = "apply" /\ result.k = NumPrinciples
    /\ result.is_complete
    /\ AllNineCompleted(StepsOf(sessions, FailureId(1)))

RECURSIVE TrailingFailures(_)
TrailingFailures(pings) ==
    IF pings = << >> \/ pings[Len(pings)] THEN 0
    ELSE 1 + TrailingFailures(SubSeq(pings, 1, Len(pings) - 1))

\* C28: as long as the client has not gone and the handler has not given
\* up, every keep-alive tick sends a ping, also after a failed one; a
\* successful ping resets the reconnect counter to 0; the handler clears
\* the timer only after more than maxReconnectAttempts consecutive failed
\* pings, and then it has sent connection_error and ended the response.
C28_KeepAliveRecovers ==
    [][(stream'.ticks # stream.ticks /\ ~stream.closed /\ ~stream.ended) =>
        /\ Len(stream'.pings) = Len(stream.pings) + 1
        /\ stream'.pings[Len(stream'.pings)] => stream'.reconnectAttempts = 0
        /\ ~stream'.timer =>
              /\ TrailingFailures(stream'.pings) > maxReconnectAttempts
              /\ stream'.ended]_vars

\* The step taken is a registration that returned, with or without error.
RegisterReturned == opCount' # opCount /\ result'.op = "register"

\* C29: register_failure is all-or-nothing: when it returns an error
\* payload neither store holds a record for the returned failure id, and
\* when it returns success both do.
C29_RegisterAllOrNothing ==
    [][RegisterReturned =>
        LET fid == result'.failure_id
        IN  /\ result'.kind = "error" =>
                  /\ fid \notin DOMAIN failures'
                  /\ SessionId(fid) \notin DOMAIN sessions'
            /\ result'.kind = "ok" =>
                  /\ fid \in DOMAIN failures'
                  /\ SessionId(fid) \in DOMAIN sessions']_vars

\* C30: a group returned by the last successful analyze call is resolved
\* by generate_prompt with its group_id (no operation other than queries
\* has run in between): the answer is not that the group is not found.
C30_ReportedGroupResolves ==
    [][(/\ Prompted
        /\ report.kind = "ok"
        /\ result'.group_id # Omitted
        /\ result'.group_id[1] \in GroupIds(report.groups))
       => result'.kind # "not_found"]_vars

====
